---- MODULE Spec2Model ----
(***************************************************************************)
(* clean-tree: a directory-tree printer.  The model follows                *)
(* src/src/clean-tree.ts: the command line is turned into TreeOptions      *)
(* (convertToTreeOptions), the TreeGenerator constructor composes the      *)
(* ignore rules (setupIgnoreRules), generate() validates the start path,   *)
(* prints the header, walks the tree depth first (walk) and prints the     *)
(* summary.  The file system and the ignore engine are the environment:    *)
(* what readdirSync, statSync, existsSync and readFileSync answer is drawn *)
(* from bounded sets; the answers about the start directory that several   *)
(* calls depend on are fixed in the initial state.                         *)
(***************************************************************************)
EXTENDS Integers, Sequences, FiniteSets, TLC

VARIABLES
  argv,        \* hideBin(process.argv): the raw command-line tokens
  options,     \* TreeOptions handed to the constructor
  pc,          \* position of the top-level script
  config,      \* TreeGenerator.config: startPath, maxDepth, ignoreRules
  stats,       \* TreeGenerator.stats: dirCount, fileCount
  stack,       \* the activations of walk(), innermost first
  stdout,      \* the lines written with console.log
  stderr,      \* the lines written with console.error or by the runtime
  exitCode,    \* -1 while running, then the process's exit status
  startKind,   \* file system: what the start path is ("dir", "file", "missing")
  rootReadable,\* file system: whether readdirSync(startPath) succeeds
  ignoreFiles, \* file system: the .*ignore entries of the start directory
  fsNodes,     \* file system: entries readdirSync has not returned yet
  listed       \* history: what getDirectoryContents returned, per directory

vars == <<argv, options, pc, config, stats, stack, stdout, stderr, exitCode,
          startKind, rootReadable, ignoreFiles, fsNodes, listed>>

----------------------------------------------------------------------------
(* Bounds of the model                                                     *)

\* most entries one readdirSync returns (the .*ignore files of the start
\* directory come on top)
MaxEntries == 3
\* most entries of the whole tree, in the runs of Spec
MaxNodes == 3
\* most entries of the whole tree, in the runs of SpecRun
RunNodes == 1
\* largest --depth drawn
MaxDepthOpt == 2

----------------------------------------------------------------------------
(* Values                                                                  *)

\* undefined, where a string is expected
None == "undefined"
\* an optional number or pattern: undefined, or the value
Undefined == <<>>
Some(v) == <<v>>
\* Infinity, the maxDepth of a run without --depth (no depth drawn is negative)
Infinity == -1

\* base names of the entries below the start path
Names == {"a", "B", "c", "Thumbs.db"}
\* names that start with '.' and end with 'ignore'
DotIgnoreNames == {".gitignore", ".npmignore"}

\* what statSync finds: a directory, a regular file, or nothing it can stat
Kinds == {"dir", "file", "other"}

\* process.cwd(), as path segments
Cwd == <<"home", "proj">>

\* types.ts TREE_SYMBOLS (box-drawing characters written in ASCII)
BRANCH == "|-- "
LAST == "+-- "
VERTICAL == "|   "
SPACE == "    "

\* ignore patterns: name matches a path with a segment of that name,
\* /name only a path whose first segment is that name
Pat(anchored, name) == [anchored |-> anchored, name |-> name]
\* a pattern the ignore engine cannot take: add() throws on it
BadPattern == Pat(FALSE, "<unparsable>")
Patterns == {Pat(FALSE, "a"), Pat(TRUE, "B")}

----------------------------------------------------------------------------
(* Sequences                                                               *)

Range(s) == {s[i] : i \in DOMAIN s}

\* the sequences of at most n distinct elements of S
DistinctSeqs(S, n) ==
  UNION { {s \in [1..k -> S] : \A i, j \in 1..k : i # j => s[i] # s[j]}
          : k \in 0..n }

\* Array.prototype.filter
filter(s, keep(_)) == SelectSeq(s, keep)

\* number of indices of s that satisfy P
Count(s, P(_)) == Cardinality({i \in DOMAIN s : P(s[i])})

----------------------------------------------------------------------------
(* The command line: yargs and convertToTreeOptions                        *)

\* the tokens drawn for a command line
DepthTokens == {"0", "1", "2"}
ExcludeTokens == {"a", "/B"}
PathTokens == {"src"}
FlagTokens == {"-d", "-e", "-g", "-a"}

\* a.startsWith('-'), over the tokens drawn
StartsWithDash(tok) == tok \in FlagTokens

\* Number(tok) of a depth token
NumberOf(tok) == CASE tok = "0" -> 0 [] tok = "1" -> 1 [] tok = "2" -> 2

\* the pattern an --exclude token states
PatternOf(tok) == CASE tok = "a" -> Pat(FALSE, "a") [] tok = "/B" -> Pat(TRUE, "B")

\* the token after the first occurrence of flag, or None
ValueAfter(args, flag) ==
  IF \E i \in 1..(Len(args) - 1) : args[i] = flag
  THEN LET i == CHOOSE i \in 1..(Len(args) - 1) :
                  args[i] = flag /\ \A j \in 1..(i - 1) : args[j] # flag
       IN args[i + 1]
  ELSE None

\* whether token i is the value of the option before it
IsOptionValue(args, i) == i > 1 /\ args[i - 1] \in {"-d", "-e"}

\* yargs(...).parseSync(): depth and exclude take the next token, the two
\* booleans default to false, the other tokens are positional
yargsParse(args) ==
  [depth |-> IF ValueAfter(args, "-d") = None THEN Undefined
             ELSE Some(NumberOf(ValueAfter(args, "-d"))),
   exclude |-> IF ValueAfter(args, "-e") = None THEN Undefined
               ELSE Some(PatternOf(ValueAfter(args, "-e"))),
   gitignore |-> "-g" \in Range(args),
   allignore |-> "-a" \in Range(args),
   positional |-> SelectSeq([i \in DOMAIN args |-> <<i, args[i]>>],
                    LAMBDA t : ~StartsWithDash(t[2]) /\ ~IsOptionValue(args, t[1]))]

\* rawArgs.find((a) => !a.startsWith('-')), or None
FirstNonDash(args) ==
  IF \E i \in DOMAIN args : ~StartsWithDash(args[i])
  THEN args[CHOOSE i \in DOMAIN args :
              ~StartsWithDash(args[i]) /\ \A j \in 1..(i - 1) : StartsWithDash(args[j])]
  ELSE None

\* DEFAULT_TREE_OPTIONS.path
DefaultPath == "."

convertToTreeOptions(args) ==
  LET parsed == yargsParse(args)
      firstPos == FirstNonDash(args)
  IN [path |-> IF firstPos # None THEN firstPos ELSE DefaultPath,
      depth |-> parsed.depth,
      exclude |-> parsed.exclude,
      gitignore |-> parsed.gitignore,
      allignore |-> parsed.allignore]

\* the command lines drawn: an optional path first or last, and any of the
\* four options between
OptTokens(present, toks) == IF present THEN toks ELSE <<>>
CommandLines ==
  { OptTokens(pos = "first", <<p>>)
      \o OptTokens(d # None, <<"-d", d>>)
      \o OptTokens(e # None, <<"-e", e>>)
      \o OptTokens(g, <<"-g">>)
      \o OptTokens(a, <<"-a">>)
      \o OptTokens(pos = "last", <<p>>)
    : pos \in {"none", "first", "last"}, p \in PathTokens,
      d \in DepthTokens \cup {None}, e \in ExcludeTokens \cup {None},
      g \in BOOLEAN, a \in BOOLEAN }

----------------------------------------------------------------------------
(* Paths (sequences of segments)                                           *)

\* path.resolve(p), from the current directory
resolve(p) == IF p = "." THEN Cwd ELSE Append(Cwd, p)

\* path.join(dir, name)
join(dir, name) == Append(dir, name)

\* path.basename(p)
basename(p) == p[Len(p)]

\* path.relative(from, to), for a path at or below from
relative(from, to) == SubSeq(to, Len(from) + 1, Len(to))

----------------------------------------------------------------------------
(* FileUtils                                                               *)

\* fs.statSync behind try/catch: the kind found, or None when stat throws
getFileStat(kind) == IF kind \in {"dir", "file"} THEN kind ELSE None

\* a version that takes whatever is not known to be a file for a directory
isDirectoryUnlessFile(kind) == getFileStat(kind) # "file"

\* stat?.isDirectory() ?? false
isDirectory(kind) == getFileStat(kind) # None /\ getFileStat(kind) = "dir"

\* stat?.isFile() ?? false
isFile(kind) == getFileStat(kind) # None /\ getFileStat(kind) = "file"

----------------------------------------------------------------------------
(* The ignore engine (package 'ignore')                                    *)

\* ignore().add(lines) throws: some line is one the engine cannot take
addThrows(lines) == BadPattern \in lines

\* ig.ignores(relativePath): some rule matches the path or a directory above it
ignores(rules, relativePath) ==
  \E r \in rules :
    IF r.anchored THEN relativePath # <<>> /\ relativePath[1] = r.name
    ELSE \E i \in DOMAIN relativePath : relativePath[i] = r.name

----------------------------------------------------------------------------
(* FilterUtils and SortUtils                                               *)

\* FilterUtils.createSystemFileFilter: the blocklist
systemFiles == {".DS_Store", "Thumbs.db", "desktop.ini"}

createSystemFileFilter(entry) == entry.name \notin systemFiles

\* an ignore filter that matches the full path, not the path relative to the start
createIgnoreFilterAbsolute(ig, startPath, entry) == ~ignores(ig, entry.fullPath)

createIgnoreFilter(ig, startPath, entry) ==
  LET relativePath == relative(startPath, entry.fullPath)
  IN ~ignores(ig, relativePath)

\* the place of a name in the locale's collation (String.prototype.localeCompare):
\* punctuation first, then letters, a lower-case letter before its capital
CollationRank(name) ==
  CASE name = ".gitignore" -> 1
    [] name = ".npmignore" -> 2
    [] name = "a" -> 3
    [] name = "B" -> 4
    [] name = "c" -> 5
    [] name = "Thumbs.db" -> 6

\* a.localeCompare(b)
localeCompare(a, b) ==
  IF CollationRank(a) < CollationRank(b) THEN -1
  ELSE IF CollationRank(a) > CollationRank(b) THEN 1 ELSE 0

\* a comparator that sorts by name only
createDefaultSortByName(a, b) == localeCompare(a.name, b.name)

\* SortUtils.createDefaultSort: directories first, then by name
createDefaultSort(a, b) ==
  IF a.isDirectory /\ ~b.isDirectory THEN -1
  ELSE IF ~a.isDirectory /\ b.isDirectory THEN 1
  ELSE localeCompare(a.name, b.name)

\* where filteredEntries.sort(sortFunction) puts e among the sorted t: after
\* the elements that do not come after it (the sort is stable)
Insert(e, t) ==
  LET k == Cardinality({i \in DOMAIN t : createDefaultSort(t[i], e) <= 0})
  IN SubSeq(t, 1, k) \o <<e>> \o SubSeq(t, k + 1, Len(t))

\* filteredEntries.sort(sortFunction)
RECURSIVE sort(_)
sort(s) ==
  IF s = <<>> THEN <<>>
  ELSE Insert(s[Len(s)], sort(SubSeq(s, 1, Len(s) - 1)))

----------------------------------------------------------------------------
(* TreeGenerator: composing the ignore rules                               *)

\* a line on standard error
ErrLine(kind, code, subject) == [kind |-> kind, code |-> code, subject |-> subject]

\* the entry of the start directory named name, as a set (empty when absent)
IgnoreFileNamed(name) == {f \in Range(ignoreFiles) : f.name = name}

\* what statSync finds under an ignore entry: a file (readable or not) or a
\* directory
IgnoreKind(f) == IF f.status = "dir" THEN "dir" ELSE "file"

\* name.startsWith('.') && name.endsWith('ignore'), over the names drawn
IsDotIgnore(name) == name \in DotIgnoreNames

\* try { add(readFileSync(file)) } catch { console.error(...) }: acc is the
\* rules composed and the warnings printed so far; readFileSync throws on a
\* file that cannot be read and on a directory; add() is inside the same try,
\* so a content it cannot take ends in the same console.error
ReadAndAdd(acc, f) ==
  IF f.status # "file" \/ addThrows(f.content)
  THEN [acc EXCEPT !.warnings =
          Append(@, ErrLine("warning", "", join(resolve(options.path), f.name)))]
  ELSE [acc EXCEPT !.rules = @ \cup f.content]

\* a version without the try: a failure leaves the loader
ReadAndAddThrowing(acc, f) ==
  IF f.status # "file" \/ addThrows(f.content) THEN [acc EXCEPT !.threw = TRUE]
  ELSE [acc EXCEPT !.rules = @ \cup f.content]

\* a version whose read failures propagate
loadGitignoreRulesThrowing(acc) ==
  IF IgnoreFileNamed(".gitignore") # {}
  THEN ReadAndAddThrowing(acc, CHOOSE f \in IgnoreFileNamed(".gitignore") : TRUE)
  ELSE acc

\* loadGitignoreRules: fs.existsSync(<start>/.gitignore), then read and add
loadGitignoreRules(acc) ==
  IF IgnoreFileNamed(".gitignore") # {}
  THEN ReadAndAdd(acc, CHOOSE f \in IgnoreFileNamed(".gitignore") : TRUE)
  ELSE acc

\* the loop of loadAllIgnoreRules over the ignore files, from the i-th on
RECURSIVE loadEach(_, _, _)
loadEach(acc, files, i) ==
  IF i > Len(files) THEN acc
  ELSE loadEach(IF isFile(IgnoreKind(files[i])) THEN ReadAndAdd(acc, files[i]) ELSE acc,
                files, i + 1)

\* a version in which a start directory that cannot be listed is an error
loadAllIgnoreRulesStrict(acc) ==
  IF startKind # "dir" \/ ~rootReadable THEN [acc EXCEPT !.threw = TRUE]
  ELSE loadEach(acc, filter(ignoreFiles, LAMBDA f : IsDotIgnore(f.name)), 1)

\* loadAllIgnoreRules: readdirSync(startPath) (return when it throws), then
\* every .*ignore entry that is a file
loadAllIgnoreRules(acc) ==
  IF startKind # "dir" \/ ~rootReadable THEN acc
  ELSE loadEach(acc, filter(ignoreFiles, LAMBDA f : IsDotIgnore(f.name)), 1)

\* setupIgnoreRules: allignore supersedes gitignore; then the exclude
\* pattern, whose add() is under the outer try only.  threw: the
\* GitignoreParseError leaves the constructor
setupIgnoreRules(opts) ==
  LET acc0 == [rules |-> {}, warnings |-> <<>>, threw |-> FALSE]
      acc1 == IF opts.allignore THEN loadAllIgnoreRules(acc0)
              ELSE IF opts.gitignore THEN loadGitignoreRules(acc0)
              ELSE acc0
  IN IF acc1.threw \/ opts.exclude = Undefined THEN acc1
     ELSE IF addThrows({opts.exclude[1]}) THEN [acc1 EXCEPT !.threw = TRUE]
     ELSE [acc1 EXCEPT !.rules = @ \cup {opts.exclude[1]}]

\* options.depth ?? Infinity
maxDepthOf(opts) == IF opts.depth = Undefined THEN Infinity ELSE opts.depth[1]

----------------------------------------------------------------------------
(* TreeGenerator: listing a directory                                      *)

\* createFileEntries: one FileEntry per name readdirSync returned
createFileEntries(currentPath, entries) ==
  [index \in 1..Len(entries) |->
     [name |-> entries[index].name,
      fullPath |-> join(currentPath, entries[index].name),
      isDirectory |-> isDirectory(entries[index].kind),
      isLast |-> index = Len(entries),
      stats |-> getFileStat(entries[index].kind)]]

\* a version that keeps the flags createFileEntries set
updateIsLastKeep(filteredEntries) == filteredEntries

\* the closing map of filterAndSortEntries: the last element is the last
updateIsLast(filteredEntries) ==
  [index \in 1..Len(filteredEntries) |->
     [filteredEntries[index] EXCEPT !.isLast = (index = Len(filteredEntries))]]

\* filterAndSortEntries: the two filters, the sort, the isLast flags
filterAndSortEntries(entries) ==
  LET afterSystem == filter(entries, createSystemFileFilter)
      afterIgnore == filter(afterSystem,
                       LAMBDA e : createIgnoreFilter(config.ignoreRules, config.startPath, e))
  IN updateIsLast(sort(afterIgnore))

\* what readdirSync(currentPath) answers: it throws, or it returns names
\* (with what statSync will find under each)
Failure == [ok |-> FALSE, entries |-> <<>>]

\* getDirectoryContents
getDirectoryContents(currentPath, result) ==
  IF result.ok
  THEN [entries |-> filterAndSortEntries(createFileEntries(currentPath, result.entries)),
        hasErrors |-> FALSE]
  ELSE [entries |-> <<>>, hasErrors |-> TRUE]

----------------------------------------------------------------------------
(* TreeGenerator: rendering                                                *)

\* a line on standard output; path tells what the line is about
OutLine(kind, prefix, connector, name, path, dirs, files) ==
  [kind |-> kind, prefix |-> prefix, connector |-> connector, name |-> name,
   path |-> path, dirs |-> dirs, files |-> files]

\* displayEntry, the line: prefix, connector, name
displayEntryLine(entry, prefix) ==
  LET connector == IF entry.isLast THEN LAST ELSE BRANCH
  IN OutLine(IF entry.isDirectory THEN "dir" ELSE "file",
             prefix, connector, entry.name, entry.fullPath, 0, 0)

\* a version that counts every entry as a file
displayEntryStatsFilesOnly(st, entry) == [st EXCEPT !.fileCount = @ + 1]

\* displayEntry, the counters
displayEntryStats(st, entry) ==
  IF entry.isDirectory THEN [st EXCEPT !.dirCount = @ + 1]
  ELSE [st EXCEPT !.fileCount = @ + 1]

\* a version that draws the vertical bar under every directory
getNextPrefixVertical(prefix, isLast) == Append(prefix, VERTICAL)

\* getNextPrefix
getNextPrefix(prefix, isLast) == Append(prefix, IF isLast THEN SPACE ELSE VERTICAL)

\* a depth test that stops one level early
depthExceededEarly(currentDepth, maxDepth) == maxDepth # Infinity /\ currentDepth >= maxDepth

\* walk: currentDepth > this.config.maxDepth
depthExceeded(currentDepth, maxDepth) == maxDepth # Infinity /\ currentDepth > maxDepth

\* walk: the line printed for a directory that could not be listed
errorLine(currentPath, prefix) ==
  OutLine("error", prefix, LAST, "[Error]", currentPath, 0, 0)

\* a failed listing that ends the whole walk
errorAbort(activations) == <<>>

\* walk: the return after the error line ends this activation only
errorReturn(activations) == Tail(activations)

\* a forEach that passes over every other entry
forEachSkip(index) == index + 2

\* forEach: after the callback on the entry at index, the entry that follows
forEachNext(index) == index + 1

\* an activation of walk(currentPath, prefix, currentDepth): idx = 0 before
\* the directory is listed, then the index of the next entry of forEach
Frame(currentPath, prefix, currentDepth) ==
  [path |-> currentPath, prefix |-> prefix, depth |-> currentDepth,
   entries |-> <<>>, idx |-> 0]

----------------------------------------------------------------------------
(* The file system's answers                                               *)

Min(a, b) == IF a < b THEN a ELSE b

\* the listings of at most n entries with names of Names
Listings(n) ==
  UNION { { [i \in 1..Len(s) |-> [name |-> s[i], kind |-> k[i]]]
            : k \in [1..Len(s) -> Kinds] }
          : s \in DistinctSeqs(Names, n) }

\* the ways to merge two sequences, each keeping its order
RECURSIVE Interleavings(_, _)
Interleavings(a, b) ==
  IF a = <<>> THEN {b}
  ELSE IF b = <<>> THEN {a}
  ELSE { <<Head(a)>> \o m : m \in Interleavings(Tail(a), b) }
       \cup { <<Head(b)>> \o m : m \in Interleavings(a, Tail(b)) }

\* the ignore entries of the start directory as readdirSync returns them
IgnoreEntries == [i \in 1..Len(ignoreFiles) |->
                    [name |-> ignoreFiles[i].name, kind |-> IgnoreKind(ignoreFiles[i])]]

\* what readdirSync(currentPath) may answer
readdirSync(currentPath) ==
  IF currentPath = config.startPath
  THEN IF rootReadable
       THEN { [ok |-> TRUE, entries |-> m]
              : m \in UNION { Interleavings(l, IgnoreEntries)
                              : l \in Listings(Min(MaxEntries, fsNodes)) } }
       ELSE {Failure}
  ELSE {Failure} \cup { [ok |-> TRUE, entries |-> l]
                        : l \in Listings(Min(MaxEntries, fsNodes)) }

\* the entries of a listing that are not ignore files of the start directory
Regular(entries) == Count(entries, LAMBDA e : e.name \in Names)

----------------------------------------------------------------------------
(* The program                                                             *)

\* const argv = convertToTreeOptions(yargsResult)
ParseArgs ==
  /\ pc = "argv"
  /\ options' = convertToTreeOptions(argv)
  /\ pc' = "parsed"
  /\ UNCHANGED <<argv, config, stats, stack, stdout, stderr, exitCode,
                 startKind, rootReadable, ignoreFiles, fsNodes, listed>>

\* new TreeGenerator(argv): the constructor; an exception that leaves it is
\* caught by nobody: the runtime prints it on standard error and exits with 1
Construct ==
  /\ pc = "start"
  /\ LET r == setupIgnoreRules(options)
         startPath == resolve(options.path)
     IN /\ config' = [startPath |-> startPath,
                      maxDepth |-> maxDepthOf(options),
                      ignoreRules |-> r.rules]
        /\ stats' = [dirCount |-> 0, fileCount |-> 0]
        /\ IF r.threw
           THEN /\ stderr' = stderr \o r.warnings
                               \o <<ErrLine("uncaught", "GITIGNORE_PARSE_ERROR", startPath)>>
                /\ exitCode' = 1
                /\ pc' = "exited"
           ELSE /\ stderr' = stderr \o r.warnings
                /\ exitCode' = exitCode
                /\ pc' = "constructed"
  /\ UNCHANGED <<argv, options, stack, stdout, startKind, rootReadable,
                 ignoreFiles, fsNodes, listed>>

\* generate(), up to the first call of walk: a start path that is no
\* directory throws InvalidPathError, which the catch reports before exit(1)
Generate ==
  /\ pc = "constructed"
  /\ IF ~isDirectory(IF startKind = "missing" THEN "other" ELSE startKind)
     THEN /\ stderr' = Append(stderr, ErrLine("report", "INVALID_PATH_ERROR", config.startPath))
          /\ exitCode' = 1
          /\ pc' = "exited"
          /\ UNCHANGED <<stdout, stack>>
     ELSE /\ stdout' = Append(stdout, OutLine("header", <<>>, "", basename(config.startPath),
                                              config.startPath, 0, 0))
          /\ stack' = <<Frame(config.startPath, <<>>, 1)>>
          /\ pc' = "walking"
          /\ UNCHANGED <<stderr, exitCode>>
  /\ UNCHANGED <<argv, options, config, stats, startKind, rootReadable,
                 ignoreFiles, fsNodes, listed>>

\* walk(), from its entry to forEach: the depth test, the listing, the
\* error line
WalkEnter ==
  /\ pc = "walking"
  /\ stack # <<>>
  /\ Head(stack).idx = 0
  /\ LET f == Head(stack) IN
     IF depthExceeded(f.depth, config.maxDepth)
     THEN /\ stack' = Tail(stack)
          /\ UNCHANGED <<stdout, fsNodes, listed>>
     ELSE \E result \in readdirSync(f.path) :
            LET contents == getDirectoryContents(f.path, result) IN
            /\ fsNodes' = fsNodes - Regular(result.entries)
            /\ listed' = Append(listed, [path |-> f.path, ok |-> result.ok,
                                         raw |-> createFileEntries(f.path, result.entries),
                                         entries |-> contents.entries])
            /\ IF contents.hasErrors
               THEN /\ stdout' = Append(stdout, errorLine(f.path, f.prefix))
                    /\ stack' = errorReturn(stack)
               ELSE /\ stdout' = stdout
                    /\ stack' = <<[f EXCEPT !.entries = contents.entries, !.idx = 1]>>
                                  \o Tail(stack)
  /\ UNCHANGED <<argv, options, pc, config, stats, stderr, exitCode,
                 startKind, rootReadable, ignoreFiles>>

\* one round of forEach: displayEntry, and the call of walk for a directory
DisplayEntry ==
  /\ pc = "walking"
  /\ stack # <<>>
  /\ Head(stack).idx >= 1
  /\ Head(stack).idx <= Len(Head(stack).entries)
  /\ LET f == Head(stack)
         entry == f.entries[f.idx]
         rest == <<[f EXCEPT !.idx = forEachNext(@)]>> \o Tail(stack)
     IN /\ stdout' = Append(stdout, displayEntryLine(entry, f.prefix))
        /\ stats' = displayEntryStats(stats, entry)
        /\ stack' = IF entry.isDirectory
                    THEN <<Frame(entry.fullPath, getNextPrefix(f.prefix, entry.isLast),
                                 f.depth + 1)>> \o rest
                    ELSE rest
  /\ UNCHANGED <<argv, options, pc, config, stderr, exitCode,
                 startKind, rootReadable, ignoreFiles, fsNodes, listed>>

\* forEach is through: walk returns
WalkReturn ==
  /\ pc = "walking"
  /\ stack # <<>>
  /\ Head(stack).idx > Len(Head(stack).entries)
  /\ stack' = Tail(stack)
  /\ UNCHANGED <<argv, options, pc, config, stats, stdout, stderr, exitCode,
                 startKind, rootReadable, ignoreFiles, fsNodes, listed>>

\* generate(), after walk: the summary; the script ends, exit status 0
Summary ==
  /\ pc = "walking"
  /\ stack = <<>>
  /\ stdout' = Append(stdout, OutLine("summary", <<>>, "", "", <<>>,
                                      stats.dirCount, stats.fileCount))
  /\ exitCode' = 0
  /\ pc' = "done"
  /\ UNCHANGED <<argv, options, config, stats, stack, stderr,
                 startKind, rootReadable, ignoreFiles, fsNodes, listed>>

----------------------------------------------------------------------------
(* Specifications                                                          *)

NoConfig == [startPath |-> <<>>, maxDepth |-> Infinity, ignoreRules |-> {}]
NoOptions == [path |-> DefaultPath, depth |-> Undefined, exclude |-> Undefined,
              gitignore |-> FALSE, allignore |-> FALSE]

\* the values of --depth drawn
Depths == {Undefined} \cup {Some(n) : n \in 0..MaxDepthOpt}

\* the state the program starts a run in, but for the inputs
Blank ==
  /\ config = NoConfig
  /\ stats = [dirCount |-> 0, fileCount |-> 0]
  /\ stack = <<>>
  /\ stdout = <<>>
  /\ stderr = <<>>
  /\ exitCode = -1
  /\ listed = <<>>

\* Spec: runs without ignore files, over trees of up to MaxNodes entries
Init ==
  /\ Blank
  /\ argv = <<>>
  /\ pc = "start"
  /\ options \in [path : {DefaultPath}, depth : Depths,
                  exclude : {Undefined} \cup {Some(p) : p \in Patterns},
                  gitignore : {FALSE}, allignore : {FALSE}]
  /\ startKind \in {"dir", "file", "missing"}
  /\ rootReadable \in BOOLEAN
  /\ startKind # "dir" => ~rootReadable
  /\ ignoreFiles = <<>>
  /\ fsNodes = MaxNodes

Next == Construct \/ Generate \/ WalkEnter \/ DisplayEntry \/ WalkReturn \/ Summary

Spec == Init /\ [][Next]_vars

\* the ignore files the start directory may hold
IgnoreFileStates(name) ==
  { [name |-> name, status |-> "file", content |-> {Pat(FALSE, "a")}],
    [name |-> name, status |-> "file", content |-> {BadPattern}],
    [name |-> name, status |-> "unreadable", content |-> {}],
    [name |-> name, status |-> "dir", content |-> {}] }
IgnoreWorlds ==
  {<<>>} \cup { <<g>> : g \in IgnoreFileStates(".gitignore") }
         \cup { <<n>> : n \in IgnoreFileStates(".npmignore") }
         \cup { <<g, n>> : g \in IgnoreFileStates(".gitignore"),
                           n \in IgnoreFileStates(".npmignore") }

\* SpecRun: runs with every option and with ignore files, over trees of up
\* to RunNodes entries beside them
InitRun ==
  /\ Blank
  /\ argv = <<>>
  /\ pc = "start"
  /\ options \in [path : {DefaultPath, "src"}, depth : {Undefined, Some(1)},
                  exclude : {Undefined, Some(Pat(TRUE, "B")), Some(BadPattern)},
                  gitignore : BOOLEAN, allignore : BOOLEAN]
  /\ startKind \in {"dir", "file", "missing"}
  /\ rootReadable \in BOOLEAN
  /\ ignoreFiles \in IgnoreWorlds
  /\ startKind # "dir" => ~rootReadable /\ ignoreFiles = <<>>
  /\ fsNodes = RunNodes

SpecRun == InitRun /\ [][Next]_vars

\* SpecCli: the command lines, up to the options they are turned into
InitCli ==
  /\ Blank
  /\ argv \in CommandLines
  /\ pc = "argv"
  /\ options = NoOptions
  /\ startKind = "dir"
  /\ rootReadable = TRUE
  /\ ignoreFiles = <<>>
  /\ fsNodes = 0

NextCli == ParseArgs

SpecCli == InitCli /\ [][NextCli]_vars

----------------------------------------------------------------------------
(* Vocabulary of the properties                                            *)

Terminal == pc \in {"done", "exited"}

\* a line that displayEntry wrote
IsEntryLine(l) == l.kind \in {"dir", "file"}

\* the directory an entry lies in
Parent(p) == SubSeq(p, 1, Len(p) - 1)

\* nesting level below the start path: its direct children are level 1
Level(p) == Len(p) - Len(config.startPath)

\* the lines printed directly under directory dir, in the order printed
ChildLines(dir) ==
  SelectSeq(stdout, LAMBDA l : IsEntryLine(l) /\ Parent(l.path) = dir)

\* the entry is excluded: by the blocklist, or by the composed ignore rules
\* on its path relative to the start path
Excluded(entry) ==
  \/ entry.name \in {".DS_Store", "Thumbs.db", "desktop.ini"}
  \/ ignores(config.ignoreRules, SubSeq(entry.fullPath, Len(config.startPath) + 1,
                                        Len(entry.fullPath)))

\* the directories getDirectoryContents was called on
ListedPaths == {listed[k].path : k \in DOMAIN listed}

\* the entry has a line
Rendered(entry) == \E i \in DOMAIN stdout :
                     IsEntryLine(stdout[i]) /\ stdout[i].path = entry.fullPath

----------------------------------------------------------------------------
(* C1: the dirCount and fileCount of the summary line are the number of    *)
(* directory lines and of file lines printed by the walk; the header line  *)
(* and an error line are counted in neither.  The counters agree with the  *)
(* lines printed so far at every step.                                     *)

----------------------------------------------------------------------------
(* C2: depth law.  With --depth N no entry at a nesting level above N is   *)
(* printed or counted, and no directory at level N or deeper is listed; a  *)
(* directory at level N still has its line.  At the end of a run every     *)
(* directory above the cut (all of them when depth is omitted) has been    *)
(* listed, and every entry of a listed directory that is not excluded has  *)
(* its line.                                                               *)

WithinDepth(level) == config.maxDepth = Infinity \/ level <= config.maxDepth

C2_DepthLaw ==
  /\ \A i \in DOMAIN stdout :
       IsEntryLine(stdout[i]) => WithinDepth(Level(stdout[i].path))
  /\ stats.dirCount + stats.fileCount =
       Count(stdout, LAMBDA l : IsEntryLine(l) /\ WithinDepth(Level(l.path)))
  /\ \A k \in DOMAIN listed : WithinDepth(Level(listed[k].path) + 1)
  /\ pc = "done" =>
       /\ WithinDepth(1) => config.startPath \in ListedPaths
       /\ \A i \in DOMAIN stdout :
            (stdout[i].kind = "dir" /\ WithinDepth(Level(stdout[i].path) + 1))
              => stdout[i].path \in ListedPaths
       /\ \A k \in DOMAIN listed : \A j \in DOMAIN listed[k].raw :
            ~Excluded(listed[k].raw[j]) => Rendered(listed[k].raw[j])

\* a finished run with --depth 2 that printed a directory at level 2, which
\* was not listed
C2_Witness ==
  /\ pc = "done"
  /\ config.maxDepth = 2
  /\ \E i \in DOMAIN stdout :
       /\ stdout[i].kind = "dir"
       /\ Level(stdout[i].path) = 2
       /\ stdout[i].path \notin ListedPaths

----------------------------------------------------------------------------
(* C3: exclusion law.  An entry whose path relative to the start path      *)
(* matches the composed ignore rules (the --exclude pattern among them),   *)
(* or whose base name is on the blocklist, has no line and is not counted, *)
(* at any depth.                                                           *)

C3_ExclusionLaw ==
  /\ \A i \in DOMAIN stdout :
       IsEntryLine(stdout[i]) =>
         /\ ~Excluded([name |-> stdout[i].name, fullPath |-> stdout[i].path])
         /\ options.exclude # Undefined =>
              ~ignores({options.exclude[1]},
                       SubSeq(stdout[i].path, Len(config.startPath) + 1,
                              Len(stdout[i].path)))
  /\ stats.dirCount + stats.fileCount =
       Count(stdout, LAMBDA l : IsEntryLine(l)
                       /\ ~Excluded([name |-> l.name, fullPath |-> l.path]))

\* a finished run with the rule a that listed, in a directory of the first
\* level, an entry named a and an entry on the blocklist, and printed neither
C3_Witness ==
  /\ pc = "done"
  /\ config.ignoreRules = {Pat(FALSE, "a")}
  /\ stats.dirCount = 1
  /\ stats.fileCount = 0
  /\ \E k \in DOMAIN listed :
       /\ Level(listed[k].path) = 1
       /\ \E j \in DOMAIN listed[k].raw : listed[k].raw[j].name = "a"
       /\ \E j \in DOMAIN listed[k].raw : listed[k].raw[j].name = "Thumbs.db"

----------------------------------------------------------------------------
(* C4: ordering law.  Of two lines printed directly under one directory,   *)
(* the earlier is never a file line when the later is a directory line,    *)
(* and when both are of one kind the earlier name comes first in the       *)
(* locale's order, whatever order readdirSync returned.                    *)

----------------------------------------------------------------------------
(* C5: last-entry law.  Under a listed directory whose filtered group is   *)
(* not empty, a line has the corner connector exactly when it is the line  *)
(* of the group's final element after filtering and sorting, and the       *)
(* branch connector otherwise; at the end of the run exactly one line of   *)
(* the group has the corner.  The flag set before filtering plays no part. *)

C5_LastEntryLaw ==
  \A k \in DOMAIN listed :
    listed[k].entries # <<>> =>
      LET group == listed[k].entries
          lines == ChildLines(listed[k].path)
      IN /\ \A i \in DOMAIN lines :
              lines[i].connector =
                IF lines[i].path = group[Len(group)].fullPath THEN LAST ELSE BRANCH
         /\ pc = "done" => Count(lines, LAMBDA l : l.connector = LAST) = 1

\* a finished run in which the entry readdirSync returned last was filtered
\* out and the entry it returned first became the last of the group
C5_Witness ==
  /\ pc = "done"
  /\ \E k \in DOMAIN listed :
       LET raw == listed[k].raw
           group == listed[k].entries
       IN /\ Len(raw) = 3
          /\ Len(group) = 2
          /\ Excluded(raw[3])
          /\ group[2].name = raw[1].name
          /\ Len(ChildLines(listed[k].path)) = 2

----------------------------------------------------------------------------
(* C8: a directory whose listing fails gets exactly one error line, with   *)
(* the corner connector and the prefix its children would have had, and no *)
(* line below it; no error line is counted; the failure never sets a       *)
(* non-zero exit status and never stops the run: the walk goes on, every   *)
(* entry of every listed directory (the later siblings of the failed one   *)
(* among them) gets its line in its place, and the run ends with the       *)
(* summary line and exit status 0.                                         *)

\* the prefix of the lines under directory dir: empty under the start path,
\* else the prefix of the directory's own line and one segment more
ChildPrefix(dir) ==
  IF dir = config.startPath THEN <<>>
  ELSE LET own == CHOOSE l \in Range(stdout) : l.kind = "dir" /\ l.path = dir
       IN Append(own.prefix, IF own.connector = LAST THEN SPACE ELSE VERTICAL)

\* some listing has failed
SomeFailure == \E k \in DOMAIN listed : ~listed[k].ok

C8_ListingFailureContained ==
  /\ \A k \in DOMAIN listed :
       ~listed[k].ok =>
         /\ Count(stdout, LAMBDA l : l.kind = "error" /\ l.path = listed[k].path) = 1
         /\ \A i \in DOMAIN stdout :
              (stdout[i].kind = "error" /\ stdout[i].path = listed[k].path)
                => /\ stdout[i].connector = LAST
                   /\ stdout[i].prefix = ChildPrefix(listed[k].path)
         /\ \A i \in DOMAIN stdout :
              (IsEntryLine(stdout[i]) /\ Len(stdout[i].path) > Len(listed[k].path))
                => SubSeq(stdout[i].path, 1, Len(listed[k].path)) # listed[k].path
  /\ \A i \in DOMAIN stdout :
       stdout[i].kind = "error" =>
         \E k \in DOMAIN listed : ~listed[k].ok /\ listed[k].path = stdout[i].path
  /\ stats.dirCount + stats.fileCount = Count(stdout, IsEntryLine)
  /\ SomeFailure =>
       /\ exitCode \in {-1, 0}
       /\ pc \in {"walking", "done"}
       /\ pc = "walking" => ENABLED (WalkEnter \/ DisplayEntry \/ WalkReturn \/ Summary)
       /\ pc = "done" =>
            /\ exitCode = 0
            /\ stdout[Len(stdout)].kind = "summary"
            /\ \A k \in DOMAIN listed :
                 LET lines == ChildLines(listed[k].path) IN
                 /\ Len(lines) = Len(listed[k].entries)
                 /\ \A i \in DOMAIN lines :
                      /\ lines[i].path = listed[k].entries[i].fullPath
                      /\ lines[i].prefix = ChildPrefix(listed[k].path)

\* a finished run in which the listing of the first of two directories of the
\* start path failed: its error line is followed by the line of the second
C8_Witness ==
  /\ pc = "done"
  /\ exitCode = 0
  /\ Len(stdout) >= 5
  /\ stdout[2].kind = "dir" /\ stdout[2].connector = BRANCH
  /\ stdout[3].kind = "error" /\ stdout[3].prefix = <<VERTICAL>>
  /\ stdout[4].kind = "dir" /\ stdout[4].connector = LAST
  /\ stdout[4].prefix = <<>>

----------------------------------------------------------------------------
(* Vocabulary of the properties about a whole run                          *)

\* the --exclude pattern is one the ignore engine cannot take
BadExclude == options.exclude # Undefined /\ options.exclude[1] = BadPattern

\* the ignore files the options make the constructor read, in order
Consulted ==
  IF options.allignore
  THEN IF startKind = "dir" /\ rootReadable
       THEN SelectSeq(ignoreFiles, LAMBDA f : f.status # "dir")
       ELSE <<>>
  ELSE IF options.gitignore
       THEN SelectSeq(ignoreFiles, LAMBDA f : f.name = ".gitignore")
       ELSE <<>>

\* the consulted file is read and the engine cannot take its content
BadContent(f) == f.status = "file" /\ BadPattern \in f.content

\* adding to the matcher throws: the --exclude pattern, or the content of a
\* consulted ignore file
AddFails == BadExclude \/ \E i \in DOMAIN Consulted : BadContent(Consulted[i])

\* the warnings due: one per consulted file that cannot be read or whose
\* content the engine cannot take, in the order the files are consulted
WarningsDue ==
  LET failed == SelectSeq(Consulted, LAMBDA f : f.status # "file" \/ BadContent(f))
  IN [i \in DOMAIN failed |->
        [kind |-> "warning", code |-> "",
         subject |-> Append(IF options.path = "." THEN Cwd ELSE Append(Cwd, options.path),
                            failed[i].name)]]

\* the start path as the reports name it
StartPathNamed == IF options.path = "." THEN Cwd ELSE Append(Cwd, options.path)

----------------------------------------------------------------------------
(* C6 (as stated): a command line without a positional path argument,      *)
(* whatever options it carries, gives the start path '.', and the start    *)
(* path is never a token that is the value of --depth or --exclude.        *)

C6_DefaultStartPath ==
  pc = "parsed" =>
    /\ yargsParse(argv).positional = <<>> => options.path = DefaultPath
    /\ yargsParse(argv).positional # <<>> => options.path = yargsParse(argv).positional[1][2]

----------------------------------------------------------------------------
(* C7 (as stated): when the start path is missing or no directory, for any *)
(* combination of options, the run prints nothing on standard output,      *)
(* exactly one line on standard error, the INVALID_PATH_ERROR report, and  *)
(* exits with a non-zero status.                                           *)

C7_InvalidPathAnyOptions ==
  (Terminal /\ startKind # "dir") =>
    /\ stdout = <<>>
    /\ stderr = <<[kind |-> "report", code |-> "INVALID_PATH_ERROR",
                   subject |-> StartPathNamed]>>
    /\ exitCode = 1

(* C7 (amended): when the start path is missing or no directory, the run   *)
(* never prints on standard output and never starts the walk; and for any  *)
(* combination of options whose --exclude pattern, if given, the ignore    *)
(* engine takes, it ends with exactly one line on standard error, the      *)
(* INVALID_PATH_ERROR report, and a non-zero exit status.                  *)

C7_InvalidPathReported ==
  startKind # "dir" =>
    /\ stdout = <<>>
    /\ pc \in {"start", "constructed", "exited"}
    /\ (pc # "start" /\ ~BadExclude) => pc = "constructed" \/ pc = "exited"
    /\ (pc = "constructed") => stderr = <<>> /\ exitCode = -1 /\ ~BadExclude
    /\ (pc = "exited" /\ ~BadExclude) =>
         /\ stderr = <<[kind |-> "report", code |-> "INVALID_PATH_ERROR",
                        subject |-> StartPathNamed]>>
         /\ exitCode = 1

\* a run on a missing start path with --allignore, --gitignore, --depth and
\* --exclude that ended with the report
C7_Witness ==
  /\ pc = "exited"
  /\ startKind = "missing"
  /\ options.allignore /\ options.gitignore
  /\ options.depth # Undefined
  /\ options.exclude # Undefined
  /\ Len(stderr) = 1
  /\ stderr[1].code = "INVALID_PATH_ERROR"

----------------------------------------------------------------------------
(* C9 (as stated): every non-fatal warning, the one for an ignore file     *)
(* that cannot be read and the one for a subdirectory that cannot be       *)
(* listed, is written to standard error and not to standard output.        *)

C9_WarningsOnStderr ==
  /\ pc # "start" => SelectSeq(stderr, LAMBDA e : e.kind = "warning"
                                   /\ Parent(e.subject) = StartPathNamed
                                   /\ e.subject[Len(e.subject)] \in DotIgnoreNames)
                       = WarningsDue
  /\ \A k \in DOMAIN listed :
       (~listed[k].ok /\ listed[k].path # config.startPath) =>
         /\ \A i \in DOMAIN stdout : stdout[i].path # listed[k].path \/ stdout[i].kind = "dir"
         /\ \E i \in DOMAIN stderr : stderr[i].subject = listed[k].path

(* C9 (amended): the warning for an ignore file that cannot be read (or    *)
(* whose content the matcher cannot take) is written to standard error and *)
(* not to standard output, once per such file consulted; the error for a   *)
(* directory that cannot be listed is written to standard output, as the   *)
(* error line of the tree, and adds nothing to standard error; the run     *)
(* continues after either: unless the start path is invalid or the         *)
(* --exclude pattern is one the matcher cannot take, it never exits early  *)
(* and ends with the summary and exit status 0.                            *)

C9_WarningStreams ==
  /\ pc # "start" => SelectSeq(stderr, LAMBDA e : e.kind = "warning") = WarningsDue
  /\ \A i \in DOMAIN stderr :
       stderr[i].kind # "warning" => (i = Len(stderr) /\ pc = "exited")
  /\ pc \in {"walking", "done"} => stderr = WarningsDue
  /\ \A i \in DOMAIN stdout : stdout[i].kind \in {"header", "dir", "file", "error", "summary"}
  /\ \A k \in DOMAIN listed :
       ~listed[k].ok =>
         \E i \in DOMAIN stdout : stdout[i].kind = "error" /\ stdout[i].path = listed[k].path
  /\ (startKind = "dir" /\ ~BadExclude) =>
       /\ pc # "exited"
       /\ exitCode \in {-1, 0}
       /\ pc # "done" => ENABLED Next
       /\ pc = "done" => exitCode = 0 /\ stdout[Len(stdout)].kind = "summary"

\* a finished run that warned about an ignore file it could not read and
\* printed the error line of a subdirectory it could not list
C9_Witness ==
  /\ pc = "done"
  /\ exitCode = 0
  /\ \E i \in DOMAIN stderr : stderr[i].kind = "warning"
  /\ \E i \in DOMAIN stdout : stdout[i].kind = "error" /\ Level(stdout[i].path) = 1
  /\ \E k \in DOMAIN ignoreFiles : ignoreFiles[k].status = "unreadable"

----------------------------------------------------------------------------
(* C10 (as stated): when composing the ignore rules fails (adding the      *)
(* pattern or the content of an ignore file throws), the run prints        *)
(* nothing on standard output, reports the failure on standard error       *)
(* through the report of the invalid-path error, with the code             *)
(* GITIGNORE_PARSE_ERROR and the start path, and exits with a non-zero     *)
(* status.                                                                 *)

C10_ParseErrorReported ==
  (pc # "start" /\ AddFails) =>
    /\ stdout = <<>>
    /\ pc = "exited"
    /\ exitCode = 1
    /\ stderr # <<>>
    /\ stderr[Len(stderr)] = [kind |-> "report", code |-> "GITIGNORE_PARSE_ERROR",
                              subject |-> StartPathNamed]

----------------------------------------------------------------------------
(* Vocabulary of the properties about the lines under a directory          *)

\* the directories the claims speak of: the start directory, once its header
\* is printed, and every directory that has a line
RenderedDirs ==
  { config.startPath : i \in {j \in DOMAIN stdout : stdout[j].kind = "header"} }
    \cup { stdout[i].path : i \in {j \in DOMAIN stdout : stdout[j].kind = "dir"} }

\* the filtered and sorted entry lists directory dir may have: the one
\* getDirectoryContents returned when the walk listed it, else the one it
\* would return on each content the directory may hold
EntryLists(dir) ==
  IF dir \in ListedPaths
  THEN { listed[k].entries : k \in {j \in DOMAIN listed : listed[j].path = dir} }
  ELSE { getDirectoryContents(dir, result).entries : result \in readdirSync(dir) }

\* the walk is through with directory dir: no activation of walk on the
\* stack is at dir or below it
Finished(dir) ==
  \A i \in DOMAIN stack :
    ~(Len(stack[i].path) >= Len(dir) /\ SubSeq(stack[i].path, 1, Len(dir)) = dir)

----------------------------------------------------------------------------
(* C11 (as stated): for every directory D, the start directory and every   *)
(* directory whose line is rendered, the number of child lines directly    *)
(* under D at the end of the run equals the size of D's filtered and       *)
(* sorted entry list.                                                      *)

C11_ChildLinesAllDirs ==
  pc = "done" =>
    \A dir \in RenderedDirs :
      \A entries \in EntryLists(dir) : Len(ChildLines(dir)) = Len(entries)

(* C11 (amended): for every directory D that the walk lists, that is the   *)
(* start directory and every directory whose line is rendered at a nesting *)
(* level below the --depth limit, the child lines directly under D are the *)
(* lines of D's filtered and sorted entry list, one per element and in its *)
(* order: never more while the walk is in D, and no fewer once the walk is *)
(* through with D (none, when the listing failed).  A directory at the     *)
(* --depth limit is rendered but never listed, and nothing is rendered     *)
(* under it whatever it holds; every child line lies under a listed        *)
(* directory.                                                              *)

C11_ChildLinesListedDirs ==
  /\ \A k \in DOMAIN listed :
       LET lines == ChildLines(listed[k].path)
           entries == listed[k].entries
       IN /\ Len(lines) <= Len(entries)
          /\ \A i \in DOMAIN lines : lines[i].path = entries[i].fullPath
          /\ Finished(listed[k].path) => Len(lines) = Len(entries)
          /\ ~listed[k].ok => entries = <<>>
          /\ listed[k].path \in RenderedDirs
          /\ \A j \in DOMAIN listed : listed[j].path = listed[k].path => j = k
  /\ \A i \in DOMAIN stdout :
       IsEntryLine(stdout[i]) => Parent(stdout[i].path) \in ListedPaths
  /\ \A dir \in RenderedDirs :
       (Finished(dir) /\ pc \in {"walking", "done"}) =>
         IF WithinDepth(Level(dir) + 1)
         THEN dir \in ListedPaths
         ELSE dir \notin ListedPaths /\ ChildLines(dir) = <<>>

\* a finished run with --depth 2: the start directory and a directory of
\* level 1 were listed and each has the lines of its two entries; a
\* directory of level 2 has its line and was not listed
C11_Witness ==
  /\ pc = "done"
  /\ config.maxDepth = 2
  /\ \E k \in DOMAIN listed :
       /\ Level(listed[k].path) = 1
       /\ Len(listed[k].entries) = 2
       /\ Len(ChildLines(listed[k].path)) = 2
       /\ \E dir \in RenderedDirs :
            /\ Parent(dir) = listed[k].path
            /\ dir \notin ListedPaths

----------------------------------------------------------------------------
(* C12: prefix propagation.  An entry line at nesting level D (children of *)
(* the start path are level 1) is D-1 prefix segments, then the branch or  *)
(* the corner connector, then the entry's name; the k-th segment is the    *)
(* blank segment when the entry's ancestor at level k is the last of its   *)
(* filtered and sorted sibling group and the vertical bar when it is not;  *)
(* the line is printed after the line of its parent directory (after the   *)
(* header, at level 1) and before the line of every sibling that follows   *)
(* the parent: depth-first pre-order.                                      *)

\* the ancestor at level k of the entry at path p
Ancestor(p, k) == SubSeq(p, 1, Len(config.startPath) + k)

\* directory a is the last of the filtered and sorted group it was listed in
LastOfGroup(a) ==
  \E k \in DOMAIN listed :
    /\ listed[k].path = Parent(a)
    /\ listed[k].entries # <<>>
    /\ listed[k].entries[Len(listed[k].entries)].fullPath = a

C12_PrefixPropagation ==
  \A i \in DOMAIN stdout :
    IsEntryLine(stdout[i]) =>
      LET l == stdout[i]
          level == Level(l.path)
      IN /\ level >= 1
         /\ Len(l.prefix) = level - 1
         /\ l.connector \in {BRANCH, LAST}
         /\ l.name = l.path[Len(l.path)]
         /\ \A k \in 1..(level - 1) :
              l.prefix[k] = IF LastOfGroup(Ancestor(l.path, k)) THEN SPACE ELSE VERTICAL
         /\ \E j \in 1..(i - 1) :
              /\ stdout[j].path = Parent(l.path)
              /\ stdout[j].kind = IF level = 1 THEN "header" ELSE "dir"
              /\ \A n \in DOMAIN stdout :
                   (/\ n > j
                    /\ IsEntryLine(stdout[n])
                    /\ Parent(stdout[n].path) = Parent(stdout[j].path))
                   => i < n

\* a finished run that printed a directory that is not the last of the start
\* path, under it an entry behind the vertical bar, and then the last entry
\* of the start path
C12_Witness ==
  /\ pc = "done"
  /\ Len(stdout) = 5
  /\ stdout[2].kind = "dir" /\ stdout[2].connector = BRANCH /\ stdout[2].prefix = <<>>
  /\ IsEntryLine(stdout[3])
  /\ Parent(stdout[3].path) = stdout[2].path
  /\ stdout[3].prefix = <<VERTICAL>> /\ stdout[3].connector = LAST
  /\ stdout[4].kind = "file" /\ stdout[4].connector = LAST /\ stdout[4].prefix = <<>>

----------------------------------------------------------------------------
(* C13: an entry whose stat fails, so that it is neither a directory nor a *)
(* file, and that passes the filters has its line, printed the way a       *)
(* file's line is; the walk never enters it: it is not listed and nothing  *)
(* is rendered under it; and its line adds one to fileCount, so that       *)
(* fileCount is the number of lines of files plus the number of lines of   *)
(* such entries.                                                           *)

\* the entries readdirSync returned, as createFileEntries made them
RawEntries == UNION { Range(listed[k].raw) : k \in DOMAIN listed }

\* the entries whose stat failed
Unclassified == { e \in RawEntries : e.stats = None }

\* the line is the line of an entry of the set
LineOf(l, entries) == IsEntryLine(l) /\ \E e \in entries : e.fullPath = l.path

C13_UnclassifiedCountedAsFile ==
  /\ \A e \in Unclassified :
       /\ ~e.isDirectory
       /\ e.fullPath \notin ListedPaths
       /\ \A i \in DOMAIN stack : stack[i].path # e.fullPath
       /\ \A i \in DOMAIN stdout :
            /\ stdout[i].path = e.fullPath => stdout[i].kind = "file"
            /\ IsEntryLine(stdout[i]) => Parent(stdout[i].path) # e.fullPath
       /\ Excluded(e) => ~Rendered(e)
       /\ (~Excluded(e) /\ Finished(Parent(e.fullPath))) => Rendered(e)
       /\ Count(stdout, LAMBDA l : l.path = e.fullPath) <= 1
  /\ stats.fileCount =
       Count(stdout, LAMBDA l : LineOf(l, {e \in RawEntries : e.stats = "file"}))
         + Count(stdout, LAMBDA l : LineOf(l, Unclassified))
  /\ \A i \in DOMAIN stdout :
       stdout[i].kind = "summary" =>
         stdout[i].files =
           Count(stdout, LAMBDA l : LineOf(l, {e \in RawEntries : e.stats = "file"}))
             + Count(stdout, LAMBDA l : LineOf(l, Unclassified))

\* a finished run over a tree without any file: a directory and, at levels 1
\* and 2, two entries whose stat failed; the summary reports two files
C13_Witness ==
  /\ pc = "done"
  /\ \A e \in RawEntries : e.stats # "file"
  /\ \E e \in Unclassified : Level(e.fullPath) = 1 /\ Rendered(e)
  /\ \E e \in Unclassified : Level(e.fullPath) = 2 /\ Rendered(e)
  /\ stats.dirCount = 1
  /\ stats.fileCount = 2
  /\ stdout[Len(stdout)].files = 2

====
